---- MODULE Spec2Model ----
(***************************************************************************)
(* A model of dashboard.py: the cached loader load_all_data (three         *)
(* semicolon-separated files read in latin1, header repair, type coercion, *)
(* per-fund cumulative return) and the module-level script that renders    *)
(* the three tabs from its result.                                         *)
(*                                                                         *)
(* Text is a sequence of one-character strings, so that startswith,        *)
(* slicing, str.replace and the numeric and date parsers work on           *)
(* characters as the code does.  The six characters of the literal on line *)
(* 44 and the three characters a UTF-8 byte-order mark decodes to in       *)
(* latin1 are written by code point ("U+00EF" is one character).           *)
(***************************************************************************)
EXTENDS Integers, Sequences, FiniteSets, TLC

VARIABLES disk, cache, all_data, seen, bodyRuns, firstResult, rendered, view

vars == <<disk, cache, all_data, seen, bodyRuns, firstResult, rendered, view>>

----------------------------------------------------------------------------
(* Bounds of the model.                                                    *)

MaxRows == 3
MaxBodyRuns == 2
MaxSideRows == 2

----------------------------------------------------------------------------
(* Text.                                                                   *)

Min(a, b) == IF a < b THEN a ELSE b

StartsWith(s, p) == Len(s) >= Len(p) /\ SubSeq(s, 1, Len(p)) = p

\* s[n:]
SliceFrom(s, n) == SubSeq(s, Min(n, Len(s)) + 1, Len(s))

RECURSIVE Replace(_, _, _)
\* str.replace(old, new): every occurrence, left to right
Replace(s, old, new) ==
    IF s = <<>> THEN <<>>
    ELSE IF StartsWith(s, old) THEN new \o Replace(SliceFrom(s, Len(old)), old, new)
    ELSE <<s[1]>> \o Replace(Tail(s), old, new)

\* Code-point order of the characters fund names are written with.
Alphabet == <<"A", "B", "C">>

Ord(c) == CHOOSE i \in 1..Len(Alphabet) : Alphabet[i] = c

RECURSIVE StrLess(_, _)
\* Python's < on str
StrLess(s, t) ==
    IF t = <<>> THEN FALSE
    ELSE IF s = <<>> THEN TRUE
    ELSE IF s[1] = t[1] THEN StrLess(Tail(s), Tail(t))
    ELSE Ord(s[1]) < Ord(t[1])

----------------------------------------------------------------------------
(* Values of a DataFrame cell: text, a number (held in tenths, the cells   *)
(* of the model carry at most one fractional digit), a date (an ordinal),  *)
(* an exact fraction (the cumulative return), or the null sentinel         *)
(* (NaN / NaT).                                                            *)

Txt(s) == [t |-> "txt", s |-> s]
Num(n) == [t |-> "num", n |-> n]
Dat(n) == [t |-> "date", n |-> n]
Frac(a, b) == [t |-> "frac", num |-> a, den |-> b]
Null == [t |-> "null"]

Digits == {"0", "1", "2", "3", "4", "5", "6", "7", "8", "9"}

DigitChars == <<"0", "1", "2", "3", "4", "5", "6", "7", "8", "9">>

DigitVal(c) == (CHOOSE i \in 1..Len(DigitChars) : DigitChars[i] = c) - 1

IsDigits(s) == \A i \in 1..Len(s) : s[i] \in Digits

RECURSIVE Nat10(_)
Nat10(s) == IF s = <<>> THEN 0 ELSE Nat10(SubSeq(s, 1, Len(s) - 1)) * 10 + DigitVal(s[Len(s)])

RECURSIVE NatStr(_)
NatStr(n) == IF n < 10 THEN <<DigitChars[n + 1]>> ELSE NatStr(n \div 10) \o <<DigitChars[(n % 10) + 1]>>

\* The parser behind pd.to_numeric for one text cell: [-]digits[.digit],
\* [-].digit; anything else does not parse.
ParseNum(s) ==
    LET neg == s # <<>> /\ s[1] = "-"
        body == IF neg THEN Tail(s) ELSE s
        sign == IF neg THEN -1 ELSE 1
        dots == {i \in 1..Len(body) : body[i] = "."}
    IN  IF body = <<>> THEN Null
        ELSE IF dots = {} THEN (IF IsDigits(body) THEN Num(sign * Nat10(body) * 10) ELSE Null)
        ELSE IF Cardinality(dots) = 1
             THEN LET p == CHOOSE i \in dots : TRUE
                      ip == SubSeq(body, 1, p - 1)
                      fp == SubSeq(body, p + 1, Len(body))
                  IN  IF IsDigits(ip) /\ IsDigits(fp) /\ Len(fp) <= 1 /\ Len(ip) + Len(fp) >= 1
                      THEN Num(sign * (Nat10(ip) * 10 + Nat10(fp)))
                      ELSE Null
        ELSE Null

\* str() of a float held in tenths: 15 -> "1.5", 20 -> "2.0", -5 -> "-0.5"
FormatNum(n) ==
    LET a == IF n < 0 THEN -n ELSE n
    IN  (IF n < 0 THEN <<"-">> ELSE <<>>) \o NatStr(a \div 10) \o <<".">> \o NatStr(a % 10)

DaysIn(y, m) ==
    IF m \in {4, 6, 9, 11} THEN 30
    ELSE IF m = 2 THEN (IF y % 4 = 0 /\ (y % 100 # 0 \/ y % 400 = 0) THEN 29 ELSE 28)
    ELSE 31

ValidYMD(y, m, d) == m \in 1..12 /\ d >= 1 /\ d <= DaysIn(y, m)

Ordinal(y, m, d) == (y * 12 + (m - 1)) * 31 + (d - 1)

\* The parser behind pd.to_datetime for one text cell: yyyy-mm-dd, or
\* aa/bb/yyyy read day first or month first, the other order being tried
\* when the first gives no calendar date.
ParseDate(s, dayfirst) ==
    IF Len(s) # 10 THEN Null
    ELSE IF s[5] = "-" /\ s[8] = "-" /\ IsDigits(SubSeq(s, 1, 4)) /\ IsDigits(SubSeq(s, 6, 7))
            /\ IsDigits(SubSeq(s, 9, 10))
         THEN LET y == Nat10(SubSeq(s, 1, 4))
                  m == Nat10(SubSeq(s, 6, 7))
                  d == Nat10(SubSeq(s, 9, 10))
              IN  IF ValidYMD(y, m, d) THEN Dat(Ordinal(y, m, d)) ELSE Null
    ELSE IF s[3] = "/" /\ s[6] = "/" /\ IsDigits(SubSeq(s, 1, 2)) /\ IsDigits(SubSeq(s, 4, 5))
            /\ IsDigits(SubSeq(s, 7, 10))
         THEN LET a == Nat10(SubSeq(s, 1, 2))
                  b == Nat10(SubSeq(s, 4, 5))
                  y == Nat10(SubSeq(s, 7, 10))
                  d1 == IF dayfirst THEN a ELSE b
                  m1 == IF dayfirst THEN b ELSE a
              IN  IF ValidYMD(y, m1, d1) THEN Dat(Ordinal(y, m1, d1))
                  ELSE IF ValidYMD(y, d1, m1) THEN Dat(Ordinal(y, d1, m1))
                  ELSE Null
    ELSE Null

----------------------------------------------------------------------------
(* Exact fractions, for the compounding: the code's floats are modelled by *)
(* the rationals they approximate.                                         *)

RECURSIVE GCD(_, _)
GCD(a, b) == IF b = 0 THEN a ELSE GCD(b, a % b)

Abs(a) == IF a < 0 THEN -a ELSE a

\* a/b in lowest terms, b > 0
Rat(a, b) == LET g == GCD(Abs(a), b) IN Frac(a \div g, b \div g)

RatMul(x, y) == Rat(x.num * y.num, x.den * y.den)

RatMinusOne(x) == Rat(x.num - x.den, x.den)

----------------------------------------------------------------------------
(* Names the code uses.                                                    *)

fundo == <<"f", "u", "n", "d", "o">>
data_referencia == <<"d", "a", "t", "a", "_", "r", "e", "f", "e", "r", "e", "n", "c", "i", "a">>
retorno_junior == <<"r", "e", "t", "o", "r", "n", "o", "_", "j", "u", "n", "i", "o", "r">>
retorno_junior_acumulado == <<"r", "e", "t", "o", "r", "n", "o", "_", "j", "u", "n", "i", "o", "r", "_", "a", "c", "u", "m", "u", "l", "a", "d", "o">>
net_worth == <<"n", "e", "t", "_", "w", "o", "r", "t", "h">>
ColDate == <<"D", "a", "t", "e">>
ColDeal == <<"D", "e", "a", "l">>
ColValue == <<"V", "a", "l", "u", "e">>
ColThreshold == <<"T", "h", "r", "e", "s", "h", "o", "l", "d">>
delinq_prefix == <<"d", "e", "l", "i", "n", "q", "_", "r", "a", "t", "i", "o", "_">>
overdue_prefix == <<"O", "v", "e", "r", "d", "u", "e", " ">>
delinq_ratio_30 == <<"d", "e", "l", "i", "n", "q", "_", "r", "a", "t", "i", "o", "_", "3", "0">>
delinq_ratio_31_60 == <<"d", "e", "l", "i", "n", "q", "_", "r", "a", "t", "i", "o", "_", "3", "1", "_", "6", "0">>
delinq_ratio_61_90 == <<"d", "e", "l", "i", "n", "q", "_", "r", "a", "t", "i", "o", "_", "6", "1", "_", "9", "0">>
delinq_ratio_91_120 == <<"d", "e", "l", "i", "n", "q", "_", "r", "a", "t", "i", "o", "_", "9", "1", "_", "1", "2", "0">>
delinq_ratio_121_150 == <<"d", "e", "l", "i", "n", "q", "_", "r", "a", "t", "i", "o", "_", "1", "2", "1", "_", "1", "5", "0">>
delinq_ratio_151_180 == <<"d", "e", "l", "i", "n", "q", "_", "r", "a", "t", "i", "o", "_", "1", "5", "1", "_", "1", "8", "0">>
delinq_ratio_181_360 == <<"d", "e", "l", "i", "n", "q", "_", "r", "a", "t", "i", "o", "_", "1", "8", "1", "_", "3", "6", "0">>
delinq_ratio_over_360 == <<"d", "e", "l", "i", "n", "q", "_", "r", "a", "t", "i", "o", "_", "o", "v", "e", "r", "_", "3", "6", "0">>
nan == <<"n", "a", "n">>

\* The literal of line 44, as the source file holds it: six characters.
bom_literal == <<"U+00C3", "U+00AF", "U+00C2", "U+00BB", "U+00C2", "U+00BF">>

\* The files of load_all_data, in the order the dictionary is iterated.
files == <<"cvm", "covenants", "macro">>

Keys == {"cvm", "covenants", "macro"}

Path(key) ==
    CASE key = "cvm" -> "data/CVM_Data.csv"
      [] key = "covenants" -> "data/Specific_Covenants.csv"
      [] key = "macro" -> "data/Macro.csv"

----------------------------------------------------------------------------
(* DataFrames: named columns, rows that keep the index they were read      *)
(* with.                                                                   *)

HasCol(df, c) == \E i \in 1..Len(df.columns) : df.columns[i] = c

ColPos(df, c) == CHOOSE i \in 1..Len(df.columns) :
                    /\ df.columns[i] = c
                    /\ \A j \in 1..(i - 1) : df.columns[j] # c

Get(df, r, c) == r.cells[ColPos(df, c)]

\* df[c] = vals: an existing column is replaced in place, a new one is
\* appended; vals[k] is the value for the k-th row.
SetColumn(df, c, vals) ==
    IF HasCol(df, c)
    THEN [columns |-> df.columns,
          rows |-> [k \in 1..Len(df.rows) |->
              [index |-> df.rows[k].index,
               cells |-> [j \in 1..Len(df.columns) |->
                            IF j = ColPos(df, c) THEN vals[k] ELSE df.rows[k].cells[j]]]]]
    ELSE [columns |-> Append(df.columns, c),
          rows |-> [k \in 1..Len(df.rows) |->
              [index |-> df.rows[k].index,
               cells |-> Append(df.rows[k].cells, vals[k])]]]

\* pd.read_csv(path, sep=';', encoding='latin1') of a file that parses: an
\* empty field is NaN, a column whose fields are all numbers is numeric,
\* any other column keeps its text.
read_csv(file) ==
    LET numeric(j) == \A k \in 1..Len(file.lines) :
                         file.lines[k][j] = <<>> \/ ParseNum(file.lines[k][j]) # Null
        cell(k, j) == IF file.lines[k][j] = <<>> THEN Null
                      ELSE IF numeric(j) THEN ParseNum(file.lines[k][j])
                      ELSE Txt(file.lines[k][j])
    IN  [columns |-> file.header,
         rows |-> [k \in 1..Len(file.lines) |->
                     [index |-> k - 1,
                      cells |-> [j \in 1..Len(file.header) |-> cell(k, j)]]]]

\* Lines 44-45: the first column is renamed when it starts with the literal.
FixHeader(df) ==
    IF StartsWith(df.columns[1], bom_literal)
    THEN [columns |-> [i \in 1..Len(df.columns) |->
                         IF df.columns[i] = df.columns[1] THEN SliceFrom(df.columns[1], 3)
                         ELSE df.columns[i]],
          rows |-> df.rows]
    ELSE df

\* Line 47: the message of the except branch
load_error(key) == [what |-> "load_error", path |-> Path(key)]

\* A not-found message that names the directory and not the file.
not_found_in_directory(key) == [what |-> "not_found", path |-> "data"]

\* Line 40: the message for a path that does not exist
not_found(key) == [what |-> "not_found", path |-> Path(key)]

NoFrames == [k \in Keys |-> [columns |-> <<>>, rows |-> <<>>]]

RECURSIVE ReadLoop(_, _, _)
\* Lines 37-48, from the i-th file on: the first file that is missing or
\* does not parse ends the call with one st.error and None.
ReadLoop(d, i, dataframes) ==
    IF i > Len(files) THEN [kind |-> "dict", errors |-> <<>>, data |-> dataframes]
    ELSE LET key == files[i]
         IN  IF d[key].st = "missing"
             THEN [kind |-> "None", errors |-> <<not_found(key)>>, data |-> NoFrames]
             ELSE IF d[key].st = "garbled"
             THEN [kind |-> "None", errors |-> <<load_error(key)>>, data |-> NoFrames]
             ELSE ReadLoop(d, i + 1,
                           [k \in Keys |-> IF k = key THEN FixHeader(read_csv(d[key]))
                                           ELSE dataframes[k]])

ReadAll(d) == ReadLoop(d, 1, NoFrames)

----------------------------------------------------------------------------
(* Coercions, cell by cell.                                                *)

\* pd.to_datetime(errors='coerce'): a number is nanoseconds after the epoch
to_datetime(v, dayfirst) ==
    IF v.t = "txt" THEN ParseDate(v.s, dayfirst)
    ELSE IF v.t = "date" THEN v
    ELSE IF v.t = "num" THEN Dat(Ordinal(1970, 1, 1))
    ELSE Null

\* A coercion that puts zero where a cell does not convert.
to_numeric_zero(v) ==
    IF v.t = "txt" THEN (IF ParseNum(v.s) = Null THEN Num(0) ELSE ParseNum(v.s))
    ELSE IF v.t = "num" THEN v
    ELSE Num(0)

\* pd.to_numeric(errors='coerce')
to_numeric(v) ==
    IF v.t = "txt" THEN ParseNum(v.s)
    ELSE IF v.t = "num" THEN v
    ELSE Null

\* .astype(str): NaN becomes the text "nan"
astype_str(v) ==
    IF v.t = "txt" THEN v
    ELSE IF v.t = "num" THEN Txt(FormatNum(v.n))
    ELSE Txt(nan)

\* .str.replace(',', '.')
str_replace_comma(v) == Txt(Replace(v.s, <<",">>, <<".">>))

\* Lines 66 and 74: pd.to_numeric(col.astype(str).str.replace(',', '.'), errors='coerce')
to_numeric_comma(v) == to_numeric(str_replace_comma(astype_str(v)))

\* .fillna(0)
fillna0(v) == IF v = Null THEN Num(0) ELSE v

----------------------------------------------------------------------------
(* sort_values.  Nulls sort last; with several keys pandas sorts with a    *)
(* stable lexsort, so ties keep their order.                               *)

ValLess(a, b) ==
    IF a.t = "null" THEN FALSE
    ELSE IF b.t = "null" THEN TRUE
    ELSE IF a.t = "txt" THEN StrLess(a.s, b.s)
    ELSE a.n < b.n

RECURSIVE RowLess(_, _, _, _)
RowLess(df, by, r1, r2) ==
    IF by = <<>> THEN FALSE
    ELSE LET a == Get(df, r1, by[1])
             b == Get(df, r2, by[1])
         IN  IF ValLess(a, b) THEN TRUE
             ELSE IF ValLess(b, a) THEN FALSE
             ELSE RowLess(df, Tail(by), r1, r2)

\* r goes after every row that is not greater than it
InsertStable(df, by, sorted, r) ==
    LET after == {i \in 0..Len(sorted) : \A j \in 1..i : ~RowLess(df, by, r, sorted[j])}
        pos == CHOOSE i \in after : \A j \in after : j <= i
    IN  SubSeq(sorted, 1, pos) \o <<r>> \o SubSeq(sorted, pos + 1, Len(sorted))

RECURSIVE SortRows(_, _, _)
SortRows(df, by, rows) ==
    IF rows = <<>> THEN <<>>
    ELSE InsertStable(df, by, SortRows(df, by, SubSeq(rows, 1, Len(rows) - 1)), rows[Len(rows)])

\* A sort that leaves the rows in the order of the file.
keep_order(df, by) == df

sort_values(df, by) == [columns |-> df.columns, rows |-> SortRows(df, by, df.rows)]

----------------------------------------------------------------------------
(* Lines 56-58: groupby('fundo')['retorno_junior'].transform(cumprod).     *)

\* 1 + rate / 100, the rate in tenths of a percent
Factor(v) == Rat(1000 + fillna0(to_numeric(v)).n, 1000)

RECURSIVE CumProdFrom(_, _, _)
\* done holds the running products of xs[1..i-1]
CumProdFrom(xs, i, done) ==
    IF i > Len(xs) THEN done
    ELSE CumProdFrom(xs, i + 1,
                     Append(done, IF i = 1 THEN xs[1] ELSE RatMul(done[i - 1], xs[i])))

cumprod(xs) == CumProdFrom(xs, 1, <<>>)

\* The rows of one group, in the frame's order (a null key forms no group).
Group(df, f) == SelectSeq(df.rows, LAMBDA r : Get(df, r, fundo) = f)

MinusOne(cp) == [i \in 1..Len(cp) |-> RatMinusOne(cp[i])]

\* The lambda of line 57 on the retorno_junior series of the group g.
GroupReturn(df, g) ==
    MinusOne(cumprod([i \in 1..Len(g) |-> Factor(Get(df, g[i], retorno_junior))]))

Range(seq) == {seq[i] : i \in 1..Len(seq)}

Column(df, c) == [k \in 1..Len(df.rows) |-> Get(df, df.rows[k], c)]

\* df[c].unique(), as a set
Unique(df, c) == Range(Column(df, c))

\* transform: each row gets its group's value at the row's place in the group.
Transform(df, byGroup) ==
    [k \in 1..Len(df.rows) |->
        IF Get(df, df.rows[k], fundo) = Null THEN Null
        ELSE byGroup[Get(df, df.rows[k], fundo)][
                Cardinality({j \in 1..k : Get(df, df.rows[j], fundo) = Get(df, df.rows[k], fundo)})]]

CumulativeReturn(df) ==
    Transform(df, [f \in Unique(df, fundo) \ {Null} |-> GroupReturn(df, Group(df, f))])

----------------------------------------------------------------------------
(* Lines 52-75: the processing of each frame.  A column the code indexes   *)
(* and the frame lacks is a KeyError, raised outside the try of line 42.   *)

Raised(frame) == [ok |-> FALSE, df |-> frame]

Done(frame) == [ok |-> TRUE, df |-> frame]

ToDatetimeColumn(df, c, dayfirst) ==
    [k \in 1..Len(df.rows) |-> to_datetime(Get(df, df.rows[k], c), dayfirst)]

\* Lines 56-59
Compound(sorted) ==
    IF ~HasCol(sorted, retorno_junior) THEN Raised(sorted)
    ELSE Done(SetColumn(sorted, retorno_junior_acumulado, CumulativeReturn(sorted)))

\* Line 55
SortCvm(dated) ==
    IF ~HasCol(dated, fundo) THEN Raised(dated)
    ELSE Compound(sort_values(dated, <<fundo, data_referencia>>))

\* Lines 53-59
ProcessCvm(df) ==
    IF ~HasCol(df, data_referencia) THEN Raised(df)
    ELSE SortCvm(SetColumn(df, data_referencia, ToDatetimeColumn(df, data_referencia, FALSE)))

RECURSIVE CoerceColumns(_, _)
\* The loops of lines 64-66 and 72-74 over the columns cols.
CoerceColumns(df, cols) ==
    IF cols = <<>> THEN df
    ELSE CoerceColumns(
            SetColumn(df, cols[1],
                      [k \in 1..Len(df.rows) |-> to_numeric_comma(Get(df, df.rows[k], cols[1]))]),
            Tail(cols))

\* Lines 62-67
ProcessCovenants(df) ==
    IF ~HasCol(df, ColDate) THEN Raised(df)
    ELSE Done(CoerceColumns(SetColumn(df, ColDate, ToDatetimeColumn(df, ColDate, FALSE)),
                            SelectSeq(<<ColValue, ColThreshold>>, LAMBDA c : HasCol(df, c))))

\* Lines 70-75
ProcessMacro(df) ==
    IF ~HasCol(df, ColDate) THEN Raised(df)
    ELSE Done(CoerceColumns(SetColumn(df, ColDate, ToDatetimeColumn(df, ColDate, TRUE)),
                            SelectSeq(df.columns, LAMBDA c : c # ColDate)))

\* The dictionary of line 31 and of line 37: one entry per key.
Disk(cvm, cov, macro) ==
    [key \in Keys |-> CASE key = "cvm" -> cvm [] key = "covenants" -> cov [] key = "macro" -> macro]

KeyError == [kind |-> "raise", errors |-> <<>>, data |-> NoFrames]

\* Lines 69-77
AfterCovenants(cvm, cov, macro) ==
    IF ~macro.ok THEN KeyError
    ELSE [kind |-> "dict", errors |-> <<>>, data |-> Disk(cvm.df, cov.df, macro.df)]

\* Lines 61-77
AfterCvm(read, cvm, cov) ==
    IF ~cov.ok THEN KeyError
    ELSE AfterCovenants(cvm, cov, ProcessMacro(read.data["macro"]))

\* Lines 52-77
AfterRead(read, cvm) ==
    IF ~cvm.ok THEN KeyError
    ELSE AfterCvm(read, cvm, ProcessCovenants(read.data["covenants"]))

\* Lines 50-77, after the loop over the files
Processed(read) ==
    IF read.kind = "None" THEN read
    ELSE AfterRead(read, ProcessCvm(read.data["cvm"]))

\* Lines 27-77: the body of load_all_data on the files d.  The result is
\* the dictionary, None after one st.error, or an exception that escapes.
load_body(d) == Processed(ReadAll(d))

----------------------------------------------------------------------------
(* Lines 94-300: the script below the call.                                *)

\* df.sort_values(col) on one column uses the default kind, quicksort,
\* which is not stable: every order of the rows that is sorted by the
\* column, nulls last, is an outcome.
QuickSortOutcomes(df, c) ==
    {[i \in 1..Len(df.rows) |-> df.rows[p[i]]] :
        p \in {q \in Permutations(1..Len(df.rows)) :
                 \A i \in 1..(Len(df.rows) - 1) :
                    ~ValLess(Get(df, df.rows[q[i + 1]], c), Get(df, df.rows[q[i]], c))}}

\* .groupby('fundo').tail(1): each fund with the index of its last row
TailOne(df, rows) ==
    {<<Get(df, rows[i], fundo), rows[i].index>> :
        i \in {k \in 1..Len(rows) :
                 /\ Get(df, rows[k], fundo) # Null
                 /\ \A j \in (k + 1)..Len(rows) :
                       Get(df, rows[j], fundo) # Get(df, rows[k], fundo)}}

\* Line 105: what df.sort_values('data_referencia').groupby('fundo').tail(1)
\* can hold.
LatestOutcomes(df) == {TailOne(df, by_date) : by_date \in QuickSortOutcomes(df, data_referencia)}

\* Line 175
delinq_order == <<delinq_ratio_30, delinq_ratio_31_60, delinq_ratio_61_90, delinq_ratio_91_120,
                  delinq_ratio_121_150, delinq_ratio_151_180, delinq_ratio_181_360,
                  delinq_ratio_over_360>>

\* Line 174
delinq_cols(df) == SelectSeq(df.columns, LAMBDA c : StartsWith(c, delinq_prefix))

\* Line 178
final_delinq_order_labels ==
    [i \in 1..Len(delinq_order) |-> Replace(delinq_order[i], delinq_prefix, overdue_prefix)]

RECURSIVE DedupFrom(_, _, _)
\* first occurrences, in order
DedupFrom(xs, i, done) ==
    IF i > Len(xs) THEN done
    ELSE DedupFrom(xs, i + 1, IF xs[i] \in Range(done) THEN done ELSE Append(done, xs[i]))

Dedup(xs) == DedupFrom(xs, 1, <<>>)

\* Line 177: the 'Delinquency Bucket' column of the melted frame holds the
\* name of each value column, once per row of the fund, column after column.
MeltedBuckets(cols, nrows) ==
    [i \in 1..(Len(cols) * nrows) |-> cols[((i - 1) \div nrows) + 1]]

\* Line 179: plotly express orders the categories of the data by the list
\* of category_orders followed by the values the list does not name, in
\* order of appearance.
px_category_order(values, orders) ==
    SelectSeq(Dedup(orders \o values), LAMBDA c : c \in Range(values))

NoView == [selected_fund |-> Null, summary_latest |-> {}, kpi_latest |-> {},
           buckets |-> <<>>, category_orders |-> <<>>, traces |-> <<>>]

\* Lines 122-123: the selectbox offers the sorted fund names and returns the
\* user's choice, the first option when there is none.
SelectedFund(df, pick) ==
    IF pick \in Unique(df, fundo) THEN pick
    ELSE IF Unique(df, fundo) = {} THEN Null
    ELSE CHOOSE f \in Unique(df, fundo) : \A g \in Unique(df, fundo) : ~ValLess(g, f)

\* Lines 173-183: the delinquency chart of the selected fund.
DelinquencyChart(cols, buckets) ==
    IF cols = <<>> THEN [buckets |-> buckets, category_orders |-> <<>>, traces |-> <<>>]
    ELSE [buckets |-> buckets, category_orders |-> final_delinq_order_labels,
          traces |-> px_category_order(buckets, final_delinq_order_labels)]

\* Lines 125-206: the fund's rows, its latest row and its charts.
FundView(selected_fund, latest, df_fund_cvm, cols) ==
    IF df_fund_cvm = <<>>
    THEN [selected_fund |-> selected_fund, summary_latest |-> latest, kpi_latest |-> {},
          buckets |-> <<>>, category_orders |-> <<>>, traces |-> <<>>]
    ELSE [selected_fund |-> selected_fund, summary_latest |-> latest,
          kpi_latest |-> {df_fund_cvm[Len(df_fund_cvm)].index}] @@
         DelinquencyChart(cols, MeltedBuckets(cols, Len(df_fund_cvm)))

FundElements(df_fund_cvm, cols) ==
    IF df_fund_cvm = <<>> THEN {"tab2.no_cvm_data"}
    ELSE {"tab2.kpi", "tab2.charts"} \cup
         (IF cols = <<>> THEN {"tab2.no_delinquency"} ELSE {"tab2.delinquency_chart"})

\* Lines 99-298
Tabs(df_cvm, df_covenants, latest, selected_fund, df_fund_cvm) ==
    IF ~HasCol(df_cvm, net_worth)
    THEN [rendered |-> {"title", "tabs", "exception"}, view |-> NoView]
    ELSE [rendered |-> {"title", "tabs", "tab1.summary"}
                       \cup FundElements(df_fund_cvm, delinq_cols(df_cvm))
                       \cup (IF HasCol(df_covenants, ColDeal)
                             THEN {"tab2.covenants", "tab3.macro"} ELSE {"exception"}),
          view |-> FundView(selected_fund, latest, df_fund_cvm, delinq_cols(df_cvm))]

Dashboard(df_cvm, df_covenants, latest, selected_fund) ==
    Tabs(df_cvm, df_covenants, latest, selected_fund,
         IF selected_fund = Null THEN <<>> ELSE Group(df_cvm, selected_fund))

\* Lines 94-300 on the result out of load_all_data, with the user's choice
\* pick in the sidebar and latest the rows line 105 came to.
\* The value is what the page shows and the rows and categories it shows
\* them from; an exception ends the script where it is raised.
Script(out, pick, latest) ==
    IF out.kind = "raise" THEN [rendered |-> {"title", "exception"}, view |-> NoView]
    ELSE IF out.kind = "None" THEN [rendered |-> {"title", "awaiting"}, view |-> NoView]
    ELSE Dashboard(out.data["cvm"], out.data["covenants"],
                   latest, SelectedFund(out.data["cvm"], pick))

----------------------------------------------------------------------------
(* The files the model is run on.                                          *)

\* What a UTF-8 byte-order mark (EF BB BF) reads as in latin1: three characters.
bom_latin1 == <<"U+00EF", "U+00BB", "U+00BF">>

fund_A == <<"A">>
fund_B == <<"B">>
d_jan == <<"2", "0", "2", "4", "-", "0", "1", "-", "3", "1">>
d_feb == <<"2", "0", "2", "4", "-", "0", "2", "-", "2", "9">>
d_mar == <<"2", "0", "2", "4", "-", "0", "3", "-", "3", "1">>
d_apr == <<"2", "0", "2", "4", "-", "0", "4", "-", "3", "0">>
d_junk == <<"n", "/", "a">>
s_1feb == <<"0", "1", "/", "0", "2", "/", "2", "0", "2", "4">>
n_1_0 == <<"1", ".", "0">>
n_2 == <<"2">>
n_m0_5 == <<"-", "0", ".", "5">>
n_1c5 == <<"1", ",", "5">>
n_abc == <<"a", "b", "c">>
inflation == <<"I", "n", "f", "l", "a", "t", "i", "o", "n", "_", "I", "P", "C", "-", "B", "r", "_", "%">>

Missing == [st |-> "missing", header |-> <<>>, lines |-> <<>>]

\* A file that exists and that read_csv cannot parse.
Garbled == [st |-> "garbled", header |-> <<>>, lines |-> <<>>]

File(header, lines) == [st |-> "ok", header |-> header, lines |-> lines]

CvmHeader == <<fundo, data_referencia, retorno_junior, net_worth>>

CovHeader == <<ColDeal, ColDate, ColValue, ColThreshold>>

MacroHeader == <<ColDate, inflation>>

DefaultCvm == File(CvmHeader, << <<fund_A, d_jan, n_1_0, n_2>>, <<fund_A, d_feb, n_2, n_2>>,
                                 <<fund_B, d_jan, n_m0_5, n_2>> >>)

DefaultCov == File(CovHeader, << <<fund_A, d_jan, n_1c5, n_2>> >>)

DefaultMacro == File(MacroHeader, << <<s_1feb, n_1c5>> >>)

NumCells == {n_1_0, n_m0_5, n_1c5, n_abc, <<>>}

RateCells == {n_1_0, n_2, n_m0_5, n_1c5, <<>>}

RateDates == <<d_jan, d_feb, d_mar, d_apr>>

LineRates == <<n_1_0, n_2, n_m0_5, n_abc>>

\* A fund table of two funds with the funds and dates fd, in any order; the
\* rate of a line goes by its place, so that every line compounds differently.
CvmTable(fd) ==
    File(CvmHeader,
         [k \in 1..Len(fd) |-> <<fd[k][1], fd[k][2], LineRates[((k - 1) % Len(LineRates)) + 1], n_2>>])

\* Lines of a fund table whose dates repeat or do not parse.
CvmDateLines == {<<fund_A, d, n_2, n_2>> : d \in {d_jan, d_feb, d_junk}}

\* A fund table of one fund in date order with the rate cells rs.
CvmRateTable(rs) == File(CvmHeader, [k \in 1..Len(rs) |-> <<fund_A, RateDates[k], rs[k], n_2>>])

CovLines == {<<fund_A, d, v, n_1c5>> : d \in {d_jan, d_junk}, v \in NumCells}

MacroLines == {<<d, v>> : d \in {s_1feb, d_junk}, v \in NumCells}

\* The same file with the prefix pre before its first header.
Prefixed(file, pre) == File(<<pre \o file.header[1]>> \o Tail(file.header), file.lines)

HeaderPrefixes == {<<>>, bom_latin1, bom_literal}

DelinqNames == {delinq_ratio_30, delinq_ratio_31_60, delinq_ratio_61_90}

\* The well-formed fund table with the delinquency columns cs after its own.
DelinqTable(cs) ==
    File(CvmHeader \o cs,
         [k \in 1..Len(DefaultCvm.lines) |-> DefaultCvm.lines[k] \o [i \in 1..Len(cs) |-> n_1_0]])

\* A table without the column c.
Without(file, c) ==
    LET keep == {i \in 1..Len(file.header) : file.header[i] # c}
        RECURSIVE sub(_, _)
        sub(xs, i) == IF i > Len(xs) THEN <<>>
                      ELSE (IF i \in keep THEN <<xs[i]>> ELSE <<>>) \o sub(xs, i + 1)
    IN  File(sub(file.header, 1), [k \in 1..Len(file.lines) |-> sub(file.lines[k], 1)])

\* What each file can be when the session changes it: absent, unparseable,
\* well-formed, or parseable without a column the loader indexes.
FileStates(key) ==
    {Missing, Garbled} \cup
    CASE key = "cvm" -> {DefaultCvm, Without(DefaultCvm, data_referencia),
                         Without(DefaultCvm, retorno_junior)}
      [] key = "covenants" -> {DefaultCov, Without(DefaultCov, ColDate)}
      [] key = "macro" -> {DefaultMacro, Without(DefaultMacro, ColDate)}

----------------------------------------------------------------------------
(* The session.                                                            *)

NoEntry == [kind |-> "no_entry"]

NotCalled == [kind |-> "not_called"]

\* Nothing chosen yet (the first option is selected), or the second fund.
Picks == {Null, Txt(fund_B)}

InitOn(d) ==
    /\ disk = d
    /\ cache = NoEntry
    /\ all_data = NotCalled
    /\ seen = d
    /\ bodyRuns = 0
    /\ firstResult = NotCalled
    /\ rendered = {}
    /\ view = NoView

\* One run of the script (the first, or the rerun a user interaction
\* causes) with pick chosen in the sidebar.  Lines 26-27 and 92:
\* st.cache_data returns the stored result of load_all_data(DATA_DIR) when
\* it holds one, whatever the files are by now; else it runs the body and
\* stores what it returns (None included); an exception stores nothing.
RunScript(pick) ==
    /\ cache # NoEntry \/ bodyRuns < MaxBodyRuns
    /\ \E out \in {IF cache # NoEntry THEN cache ELSE load_body(disk)} :
          /\ cache' = IF out.kind = "raise" THEN NoEntry ELSE out
          /\ firstResult' = IF firstResult = NotCalled THEN out ELSE firstResult
          /\ all_data' = out
          /\ \E latest \in (IF out.kind = "dict" THEN LatestOutcomes(out.data["cvm"]) ELSE {{}}) :
                \E page \in {Script(out, pick, latest)} :
                   rendered' = page.rendered /\ view' = page.view
    /\ seen' = IF cache # NoEntry THEN seen ELSE disk
    /\ bodyRuns' = IF cache # NoEntry THEN bodyRuns ELSE bodyRuns + 1
    /\ UNCHANGED disk

\* The explicit clearing of the cache (st.cache_data.clear, the "Clear
\* cache" command of the hosting framework).
ClearCache ==
    /\ cache' = NoEntry
    /\ bodyRuns' = 0
    /\ firstResult' = NotCalled
    /\ UNCHANGED <<disk, all_data, seen, rendered, view>>

\* A file of the data directory is created, removed or rewritten.
WriteFile(key, file) ==
    /\ disk[key] # file
    /\ disk' = [k \in Keys |-> IF k = key THEN file ELSE disk[k]]
    /\ UNCHANGED <<cache, all_data, seen, bodyRuns, firstResult, rendered, view>>

Init ==
    \E a \in FileStates("cvm") : \E b \in FileStates("covenants") : \E c \in FileStates("macro") :
        InitOn(Disk(a, b, c))

Next ==
    \/ \E pick \in Picks : RunScript(pick)
    \/ ClearCache
    \/ \E key \in Keys : \E file \in FileStates(key) : WriteFile(key, file)

Spec == Init /\ [][Next]_vars

\* The session on a directory whose three files parse: fund tables of up to
\* MaxRows lines, covenant and macro tables of up to MaxSideRows lines,
\* headers with and without a prefix, delinquency columns in any order.
InitData ==
    \/ \E k \in 0..MaxRows : \E fd \in [1..k -> {fund_A, fund_B} \X {d_jan, d_feb}] :
          InitOn(Disk(CvmTable(fd), DefaultCov, DefaultMacro))
    \/ \E k \in 0..MaxRows : \E ls \in [1..k -> CvmDateLines] :
          InitOn(Disk(File(CvmHeader, ls), DefaultCov, DefaultMacro))
    \/ \E k \in 0..Min(MaxRows, Len(RateDates)) : \E rs \in [1..k -> RateCells] :
          InitOn(Disk(CvmRateTable(rs), DefaultCov, DefaultMacro))
    \/ \E k \in 0..MaxSideRows : \E ls \in [1..k -> CovLines] :
          InitOn(Disk(DefaultCvm, File(CovHeader, ls), DefaultMacro))
    \/ \E k \in 0..MaxSideRows : \E ls \in [1..k -> MacroLines] :
          InitOn(Disk(DefaultCvm, DefaultCov, File(MacroHeader, ls)))
    \/ \E a \in HeaderPrefixes : \E b \in HeaderPrefixes : \E c \in HeaderPrefixes :
          InitOn(Disk(Prefixed(DefaultCvm, a), Prefixed(DefaultCov, b), Prefixed(DefaultMacro, c)))
    \/ \E k \in 0..Cardinality(DelinqNames) : \E cs \in [1..k -> DelinqNames] :
          /\ \A i, j \in 1..k : i # j => cs[i] # cs[j]
          /\ InitOn(Disk(DelinqTable(cs), DefaultCov, DefaultMacro))

NextData == \E pick \in Picks : RunScript(pick)

SpecData == InitData /\ [][NextData]_vars

----------------------------------------------------------------------------
(* What the properties are stated with.  seen is the directory as the body *)
(* of load_all_data last read it and all_data what the last call gave, so  *)
(* once a call is made all_data is the outcome of the load of seen.        *)

Called == all_data # NotCalled

Unavailable(file) == file.st # "ok"

\* The three files parse and their first headers carry no prefix.
PlainHeaders ==
    /\ \A key \in Keys : seen[key].st = "ok"
    /\ seen["cvm"].header[1] = fundo
    /\ seen["covenants"].header[1] = ColDeal
    /\ seen["macro"].header[1] = ColDate

\* The date each date cell of the model denotes, read day first or not.
DateOf(s, dayfirst) ==
    CASE s = d_jan -> Dat(Ordinal(2024, 1, 31))
      [] s = d_feb -> Dat(Ordinal(2024, 2, 29))
      [] s = d_mar -> Dat(Ordinal(2024, 3, 31))
      [] s = d_apr -> Dat(Ordinal(2024, 4, 30))
      [] s = s_1feb -> IF dayfirst THEN Dat(Ordinal(2024, 2, 1)) ELSE Dat(Ordinal(2024, 1, 2))
      [] OTHER -> Null

\* The number, in tenths, each numeric cell of the model denotes when a
\* comma is a decimal separator.
NumberOf(s) ==
    CASE s = n_1_0 -> Num(10)
      [] s = n_2 -> Num(20)
      [] s = n_m0_5 -> Num(-5)
      [] s = n_1c5 -> Num(15)
      [] OTHER -> Null

HasComma(s) == \E p \in 1..Len(s) : s[p] = ","

\* The rate a rate cell stands for in the compounding: zero when the cell
\* is empty or is no number.
RateOf(s) == IF NumberOf(s) = Null THEN 0 ELSE NumberOf(s).n

RECURSIVE ProductOver(_, _)
\* The product of 1 + rate/100 over the lines ls of the fund file.
ProductOver(lines, ls) ==
    IF ls = {} THEN Rat(1, 1)
    ELSE RatMul(Rat(1000 + RateOf(lines[CHOOSE i \in ls : TRUE][3]), 1000),
                ProductOver(lines, ls \ {CHOOSE i \in ls : TRUE}))

\* The lines of the fund f: each has a date, no two the same date, and no
\* rate is written with a comma.
WellFormedFund(lines, f) ==
    \A i \in 1..Len(lines) :
        lines[i][1] = f =>
            /\ DateOf(lines[i][2], FALSE) # Null
            /\ ~HasComma(lines[i][3])
            /\ \A j \in 1..Len(lines) : (j # i /\ lines[j][1] = f) => lines[j][2] # lines[i][2]

\* The lines of the fund of line i dated no later than line i.
UpTo(lines, i) ==
    {j \in 1..Len(lines) :
        /\ lines[j][1] = lines[i][1]
        /\ DateOf(lines[j][2], FALSE).n <= DateOf(lines[i][2], FALSE).n}

ReturnsCompound(df, lines) ==
    \A k \in 1..Len(df.rows) :
        WellFormedFund(lines, lines[df.rows[k].index + 1][1]) =>
            /\ Get(df, df.rows[k], retorno_junior_acumulado)
                  = RatMinusOne(ProductOver(lines, UpTo(lines, df.rows[k].index + 1)))
            /\ \A m \in (k + 1)..Len(df.rows) :
                  Get(df, df.rows[m], fundo) = Get(df, df.rows[k], fundo) =>
                     Get(df, df.rows[k], data_referencia).n < Get(df, df.rows[m], data_referencia).n

C2_PerDataset ==
    Called =>
        \A key \in Keys :
            (Unavailable(seen[key]) /\ \A k \in Keys \ {key} :
                seen[k] \in {DefaultCvm, DefaultCov, DefaultMacro})
            => (all_data.kind = "dict" /\ "tabs" \in rendered /\ "awaiting" \notin rendered)

\* C3: a call returns the dictionary of tables, or reports one message and
\* returns None; no exception leaves load_all_data.
C3_NoEscape ==
    Called =>
        \/ all_data.kind = "dict" /\ all_data.errors = <<>>
        \/ all_data.kind = "None" /\ Len(all_data.errors) = 1

OnlyAwaiting == "awaiting" \in rendered /\ rendered \subseteq {"title", "awaiting"}

C5_ReadOnce ==
    /\ bodyRuns <= 1
    /\ (Called /\ firstResult # NotCalled) => all_data = firstResult

\* C6: a first header that starts with the three characters a byte-order
\* mark reads as in latin1 is returned without them, and any other first
\* header is returned as it is.
C6_ArtifactStripped ==
    (Called /\ all_data.kind = "dict") =>
        \A key \in Keys :
            all_data.data[key].columns[1]
               = IF StartsWith(seen[key].header[1], bom_latin1)
                 THEN SliceFrom(seen[key].header[1], Len(bom_latin1))
                 ELSE seen[key].header[1]

\* The buckets of vals in the canonical order.
Canonical(vals) == SelectSeq(delinq_order, LAMBDA c : c \in Range(vals))

\* C7: the delinquency chart shows the buckets in the canonical order, and
\* the category order it is given names the values of the reshaped column.
C7_CanonicalOrder ==
    "tab2.delinquency_chart" \in rendered =>
        /\ view.traces = Canonical(view.buckets)
        /\ Range(view.buckets) \subseteq Range(view.category_orders)

CommaCoerced(df, file, cols) ==
    \A k \in 1..Len(df.rows) : \A j \in 1..Len(file.header) :
        (file.header[j] \in cols /\ HasComma(file.lines[df.rows[k].index + 1][j]))
        => Get(df, df.rows[k], file.header[j]) = NumberOf(file.lines[df.rows[k].index + 1][j])

CommaRateCompounds(df, lines) ==
    \A k \in 1..Len(df.rows) :
        (\A i \in 1..Len(lines) : lines[i][1] = lines[df.rows[k].index + 1][1]
                                     => DateOf(lines[i][2], FALSE) # Null)
        => Get(df, df.rows[k], retorno_junior_acumulado).t = "frac"
           /\ (UpTo(lines, df.rows[k].index + 1) = {df.rows[k].index + 1}
                 => Get(df, df.rows[k], retorno_junior_acumulado)
                       = RatMinusOne(ProductOver(lines, {df.rows[k].index + 1})))

\* C8: a cell written with a comma decimal holds its number in the covenant
\* Value and Threshold columns and in every macro indicator column, and a
\* fund's first rate written with a comma compounds as that rate.
C8_CommaDecimal ==
    (Called /\ PlainHeaders /\ all_data.kind = "dict") =>
        /\ CommaCoerced(all_data.data["covenants"], seen["covenants"], {ColValue, ColThreshold})
        /\ CommaCoerced(all_data.data["macro"], seen["macro"],
                        Range(seen["macro"].header) \ {ColDate})
        /\ CommaRateCompounds(all_data.data["cvm"], seen["cvm"].lines)

\* What the cell of column c of the table key is to hold after the load,
\* given its text in the file and the value read_csv gave it.
Coerced(key, c, text, read) ==
    IF (key = "cvm" /\ c = data_referencia) \/ (key # "cvm" /\ c = ColDate)
    THEN DateOf(text, key = "macro")
    ELSE IF (key = "covenants" /\ c \in {ColValue, ColThreshold}) \/ key = "macro"
    THEN NumberOf(text)
    ELSE read

RowsKept(key, df, file, read) ==
    /\ Len(df.rows) = Len(file.lines)
    /\ \A i \in 1..Len(file.lines) :
          Cardinality({k \in 1..Len(df.rows) : df.rows[k].index = i - 1}) = 1
    /\ \A k \in 1..Len(df.rows) : \A j \in 1..Len(file.header) :
          Get(df, df.rows[k], file.header[j])
             = Coerced(key, file.header[j], file.lines[df.rows[k].index + 1][j],
                       read.rows[df.rows[k].index + 1].cells[j])

\* C9: when the three files parse, the load returns the tables; each table
\* has exactly the rows of its file, a date cell or a numeric cell that does
\* not convert is null, a cell that converts holds its value, and every
\* other cell, the raw retorno_junior among them, holds what was read.
C9_RowsKept ==
    (Called /\ PlainHeaders) =>
        /\ all_data.kind = "dict"
        /\ \A key \in Keys : RowsKept(key, all_data.data[key], seen[key], read_csv(seen[key]))

\* C9: a covenant table of two lines, one with a date and a value that do
\* not convert, was returned with both rows, the cells null.
C9_Witness ==
    /\ Called /\ all_data.kind = "dict"
    /\ seen["covenants"].lines = << <<fund_A, d_junk, n_abc, n_1c5>>, <<fund_A, d_jan, n_1c5, n_1c5>> >>
    /\ Len(all_data.data["covenants"].rows) = 2
    /\ all_data.data["covenants"].rows[1].cells = <<Txt(fund_A), Null, Null, Num(15)>>
    /\ all_data.data["covenants"].rows[2].cells
          = <<Txt(fund_A), Dat(Ordinal(2024, 1, 31)), Num(15), Num(15)>>

\* The rows of the fund f of the returned table that have the fund's
\* greatest date.
GreatestDated(df, f) ==
    {df.rows[k].index : k \in {i \in 1..Len(df.rows) :
        /\ Get(df, df.rows[i], fundo) = f
        /\ Get(df, df.rows[i], data_referencia) # Null
        /\ \A j \in 1..Len(df.rows) :
              (Get(df, df.rows[j], fundo) = f /\ Get(df, df.rows[j], data_referencia) # Null)
              => Get(df, df.rows[j], data_referencia).n <= Get(df, df.rows[i], data_referencia).n}}

\* C10: the summary's row of every fund that has a dated row is a row with
\* the fund's greatest date, and the row of the selected fund's indicators
\* is the summary's row of that fund.
C10_LatestRow ==
    "tab1.summary" \in rendered =>
        /\ \A fi \in view.summary_latest :
              GreatestDated(all_data.data["cvm"], fi[1]) # {}
                 => fi[2] \in GreatestDated(all_data.data["cvm"], fi[1])
        /\ \A i \in view.kpi_latest : <<view.selected_fund, i>> \in view.summary_latest

====
